---------------------------- MODULE Spec2Model ----------------------------
(***************************************************************************)
(* A model of the feed collector of medical_analytics                      *)
(* (src/core/collector.py, class PaperCollector) and of the session state  *)
(* of its application (src/app.py).                                        *)
(*                                                                         *)
(* Text is a sequence of one-character strings, so that the regular        *)
(* expressions of the cleaning functions are modelled character by         *)
(* character.  A datetime is a number of hours since datetime.min.         *)
(***************************************************************************)
EXTENDS Integers, Sequences, FiniteSets, TLC

VARIABLES
    url,          \* argument of fetch_papers
    months_back,  \* argument of fetch_papers
    max_papers,   \* argument of fetch_papers
    now,          \* the reading of datetime.now() in this call
    feed,         \* the entries of the feed the server holds (feed.entries)
    pc,           \* position of the call in fetch_papers
    requests,     \* the network requests issued so far, in order
    status,       \* how the feed request ended
    journal_type, \* local of fetch_papers
    cutoff_date,  \* local of fetch_papers
    idx,          \* position of the for loop over feed.entries
    papers,       \* local of fetch_papers
    outcome,      \* how the call ended: "running", "returned" or "raised"
    result,       \* the returned list
    text,         \* text cleaning: the input text
    cleaner,      \* text cleaning: the function applied, "abstract" or "title"
    cleaned,      \* text cleaning: the results of the successive cleanings
    calls,        \* concurrent calls on one collector: the locals of each call
    jar,          \* concurrent calls: the cookies of the shared self.scraper
    session,      \* the application: st.session_state
    period        \* the application: the value of the "Time Period" selectbox

vars == <<url, months_back, max_papers, now, feed, pc, requests, status,
          journal_type, cutoff_date, idx, papers, outcome, result,
          text, cleaner, cleaned, calls, jar, session, period>>

callVars == <<url, months_back, max_papers, now, feed, pc, requests, status,
              journal_type, cutoff_date, idx, papers, outcome, result>>

cleanVars == <<text, cleaner, cleaned>>

concVars == <<calls, jar>>

appVars == <<session, period>>

(***************************************************************************)
(* Characters                                                              *)
(***************************************************************************)
UpperCase == <<"A", "B", "C", "D", "E", "F", "G", "H", "I", "J", "K", "L", "M",
               "N", "O", "P", "Q", "R", "S", "T", "U", "V", "W", "X", "Y", "Z">>

LowerCase == <<"a", "b", "c", "d", "e", "f", "g", "h", "i", "j", "k", "l", "m",
               "n", "o", "p", "q", "r", "s", "t", "u", "v", "w", "x", "y", "z">>

Digits == {"0", "1", "2", "3", "4", "5", "6", "7", "8", "9"}

\* str.lower() on one character, and the case folding of re.IGNORECASE
LowerChar(c) ==
    IF \E k \in DOMAIN UpperCase : UpperCase[k] = c
    THEN LowerCase[CHOOSE k \in DOMAIN UpperCase : UpperCase[k] = c]
    ELSE c

Lower(s) == [k \in DOMAIN s |-> LowerChar(s[k])]

\* \s of the regular expressions, and the characters str.strip() removes
IsSpace(c) == c \in {" ", "\t", "\n"}

\* \w of the regular expressions
IsWord(c) ==
    \/ \E k \in DOMAIN UpperCase : UpperCase[k] = c \/ LowerCase[k] = c
    \/ c \in Digits
    \/ c = "_"

\* the least element of a non-empty set of integers
Least(S) == CHOOSE k \in S : \A m \in S : k <= m

\* s[a..] (Python s[a-1:])
From(s, a) == SubSeq(s, a, Len(s))

\* s[a..a+Len(w)-1] = w, compared case-insensitively
MatchesAt(s, a, w) ==
    /\ a >= 1
    /\ a + Len(w) - 1 <= Len(s)
    /\ Lower(SubSeq(s, a, a + Len(w) - 1)) = Lower(w)

\* frag in s
Contains(s, frag) ==
    \E a \in 1..(Len(s) + 1) :
        /\ a + Len(frag) - 1 <= Len(s)
        /\ SubSeq(s, a, a + Len(frag) - 1) = frag

\* the first position >= a of s that holds no whitespace (Len(s)+1 if none):
\* where a greedy \s* that starts at a ends
SkipSpaces(s, a) ==
    Least({k \in a..(Len(s) + 1) : k = Len(s) + 1 \/ ~IsSpace(s[k])})

(***************************************************************************)
(* html.unescape, for the named references amp, lt and gt (with and        *)
(* without the closing semicolon, as the html5 table holds them).  Numeric *)
(* references are not modelled: no modelled text holds a "#".              *)
(***************************************************************************)
EntityNames == {<<"a", "m", "p", ";">>, <<"a", "m", "p">>,
                <<"l", "t", ";">>, <<"l", "t">>,
                <<"g", "t", ";">>, <<"g", "t">>}

EntityChar(name) ==
    IF name[1] = "a" THEN "&" ELSE IF name[1] = "l" THEN "<" ELSE ">"

\* the characters [^\t\n\f <&#;] a reference name is made of
IsNameChar(c) == ~IsSpace(c) /\ c \notin {"<", "&", "#", ";"}

MaxNameLen == 32

\* the end of the reference that starts with the "&" at a (0 if none):
\* &[^\t\n\f <&#;]{1,32};?
RefEnd(s, a) ==
    IF a + 1 > Len(s) \/ ~IsNameChar(s[a + 1]) THEN 0
    ELSE LET stop == Least({k \in (a + 1)..(Len(s) + 1) :
                               \/ k = Len(s) + 1
                               \/ k = a + 1 + MaxNameLen
                               \/ ~IsNameChar(s[k])})
         IN  IF stop <= Len(s) /\ s[stop] = ";" THEN stop ELSE stop - 1

\* replace_charref of html.unescape on the name (reference without its "&")
ReplaceCharref(name) ==
    IF name \in EntityNames THEN <<EntityChar(name)>>
    ELSE LET P == {x \in 2..(Len(name) - 1) : SubSeq(name, 1, x) \in EntityNames}
         IN  IF P # {}
             THEN LET x == CHOOSE y \in P : \A z \in P : z <= y
                  IN  <<EntityChar(name)>> \o From(name, x + 1)
             ELSE <<"&">> \o name

RECURSIVE UnescapeFrom(_, _)
UnescapeFrom(s, a) ==
    IF a > Len(s) THEN <<>>
    ELSE IF s[a] = "&" /\ RefEnd(s, a) > 0
         THEN ReplaceCharref(SubSeq(s, a + 1, RefEnd(s, a)))
                  \o UnescapeFrom(s, RefEnd(s, a) + 1)
         ELSE <<s[a]>> \o UnescapeFrom(s, a + 1)

HtmlUnescape(s) == UnescapeFrom(s, 1)

(***************************************************************************)
(* re.sub(r'<[^>]+>', rep, s)                                              *)
(***************************************************************************)
\* the end of the tag that starts at a (0 if none)
TagEnd(s, a) ==
    IF s[a] = "<" /\ a + 1 <= Len(s) /\ s[a + 1] # ">"
    THEN LET K == {k \in (a + 2)..Len(s) : s[k] = ">"}
         IN  IF K = {} THEN 0 ELSE Least(K)
    ELSE 0

RECURSIVE SubTagsFrom(_, _, _)
SubTagsFrom(s, a, rep) ==
    IF a > Len(s) THEN <<>>
    ELSE IF TagEnd(s, a) > 0
         THEN rep \o SubTagsFrom(s, TagEnd(s, a) + 1, rep)
         ELSE <<s[a]>> \o SubTagsFrom(s, a + 1, rep)

SubTags(s, rep) == SubTagsFrom(s, 1, rep)

(***************************************************************************)
(* re.sub(r'^ABSTRACT\s*', '', s, flags=re.IGNORECASE)                     *)
(***************************************************************************)
AbstractLabel == <<"A", "B", "S", "T", "R", "A", "C", "T">>

SubAbstractPrefix(s) ==
    IF MatchesAt(s, 1, AbstractLabel)
    THEN From(s, SkipSpaces(s, Len(AbstractLabel) + 1))
    ELSE s

(***************************************************************************)
(* re.sub(r'\b(Purpose|Objective|Background|Methods?|Results?|             *)
(*           Conclusions?|Discussion)\b\s*:?\s*', '', s, re.IGNORECASE)    *)
(***************************************************************************)
\* the alternatives in the order the pattern tries them; the optional s of
\* Methods?, Results? and Conclusions? is greedy, so the longer form is first
SectionLabels ==
    << <<"P", "u", "r", "p", "o", "s", "e">>,
       <<"O", "b", "j", "e", "c", "t", "i", "v", "e">>,
       <<"B", "a", "c", "k", "g", "r", "o", "u", "n", "d">>,
       <<"M", "e", "t", "h", "o", "d", "s">>,
       <<"M", "e", "t", "h", "o", "d">>,
       <<"R", "e", "s", "u", "l", "t", "s">>,
       <<"R", "e", "s", "u", "l", "t">>,
       <<"C", "o", "n", "c", "l", "u", "s", "i", "o", "n", "s">>,
       <<"C", "o", "n", "c", "l", "u", "s", "i", "o", "n">>,
       <<"D", "i", "s", "c", "u", "s", "s", "i", "o", "n">> >>

\* \b between s[a-1] and s[a]
WordBoundary(s, a) ==
    LET before == a - 1 >= 1 /\ a - 1 <= Len(s) /\ IsWord(s[a - 1])
        after  == a >= 1 /\ a <= Len(s) /\ IsWord(s[a])
    IN  before # after

\* the alternatives that match at a as a whole word
LabelsAt(s, a) ==
    {k \in DOMAIN SectionLabels :
        /\ WordBoundary(s, a)
        /\ MatchesAt(s, a, SectionLabels[k])
        /\ WordBoundary(s, a + Len(SectionLabels[k]))}

\* the position after the match of the pattern that starts at a (0 if none)
LabelEnd(s, a) ==
    IF LabelsAt(s, a) = {} THEN 0
    ELSE LET k     == Least(LabelsAt(s, a))
             sp    == SkipSpaces(s, a + Len(SectionLabels[k]))
             colon == IF sp <= Len(s) /\ s[sp] = ":" THEN sp + 1 ELSE sp
         IN  SkipSpaces(s, colon)

RECURSIVE SubLabelsFrom(_, _)
SubLabelsFrom(s, a) ==
    IF a > Len(s) THEN <<>>
    ELSE IF LabelEnd(s, a) > 0
         THEN SubLabelsFrom(s, LabelEnd(s, a))
         ELSE <<s[a]>> \o SubLabelsFrom(s, a + 1)

SubLabels(s) == SubLabelsFrom(s, 1)

(***************************************************************************)
(* re.sub(r'\s+', ' ', s) and str.strip()                                  *)
(***************************************************************************)
RECURSIVE SubSpacesFrom(_, _)
SubSpacesFrom(s, a) ==
    IF a > Len(s) THEN <<>>
    ELSE IF IsSpace(s[a])
         THEN <<" ">> \o SubSpacesFrom(s, SkipSpaces(s, a))
         ELSE <<s[a]>> \o SubSpacesFrom(s, a + 1)

SubSpaces(s) == SubSpacesFrom(s, 1)

Strip(s) ==
    LET K == {k \in DOMAIN s : ~IsSpace(s[k])}
    IN  IF K = {} THEN <<>>
        ELSE SubSeq(s, Least(K), CHOOSE k \in K : \A m \in K : m <= k)

(***************************************************************************)
(* PaperCollector._clean_abstract and PaperCollector._clean_text           *)
(***************************************************************************)
_clean_abstract(s) ==
    IF s = <<>> THEN <<>>
    ELSE Strip(SubSpaces(SubLabels(SubAbstractPrefix(
             SubTags(HtmlUnescape(s), <<" ">>)))))

_clean_text(s) ==
    IF s = <<>> THEN <<>>
    ELSE Strip(SubSpaces(SubTags(HtmlUnescape(s), <<>>)))

(***************************************************************************)
(* Dates.  A date text is a string; DateReading is what                    *)
(* dateutil.parser.parse reads in it: the wall-clock time of the text, in  *)
(* hours since datetime.min, and its UTC offset.  A text outside the       *)
(* domain of DateReading makes the parser raise.                           *)
(***************************************************************************)
\* the reading of the clock (datetime.now()), in hours since datetime.min
Clock == 2000

DaysPerMonth == 30

HoursPerDay == 24

DatetimeMin == 0

\* pub_date = None
NoneDate == -1

DateReading ==
    [t \in {"today", "yesterday", "yesterday (ISO 8601)", "60 days ago",
            "yesterday +02:00", "60 days ago -05:00"} |->
        CASE t = "today"                -> [wall |-> Clock, utcoff |-> 0]
          [] t = "yesterday"            -> [wall |-> Clock - 24, utcoff |-> 0]
          [] t = "yesterday (ISO 8601)" -> [wall |-> Clock - 24, utcoff |-> 0]
          [] t = "60 days ago"          -> [wall |-> Clock - 1440, utcoff |-> 0]
          [] t = "yesterday +02:00"     -> [wall |-> Clock - 24 + 2, utcoff |-> 2]
          [] t = "60 days ago -05:00"   -> [wall |-> Clock - 1440 - 5, utcoff |-> -5]]

\* date_parser.parse(pub_date_str) returns
DateParses(t) == t \in DOMAIN DateReading

\* date_parser.parse(pub_date_str).replace(tzinfo=None): the offset is dropped
NaiveDate(t) == DateReading[t].wall

(***************************************************************************)
(* Entries.  An entry is a function from the field names the feed gives    *)
(* it to strings; entry.get(k, "") is the field or the empty string.       *)
(***************************************************************************)
GetText(entry, k) == IF k \in DOMAIN entry THEN entry[k] ELSE <<>>

GetDate(entry, k) == IF k \in DOMAIN entry THEN entry[k] ELSE ""

\* a or b, on strings
OrElse(a, b) == IF a # "" THEN a ELSE b

OrElseText(a, b) == IF a # <<>> THEN a ELSE b

\* mutant: updated is consulted before published
pub_date_str_updated_first(entry) ==
    OrElse(GetDate(entry, "updated"),
    OrElse(GetDate(entry, "published"),
    OrElse(GetDate(entry, "dc_date"),
    OrElse(GetDate(entry, "prism_publicationdate"),
    OrElse(GetDate(entry, "pubDate"), "")))))

\* the date fields in the order _parse_entry consults them
pub_date_str(entry) ==
    OrElse(GetDate(entry, "published"),
    OrElse(GetDate(entry, "updated"),
    OrElse(GetDate(entry, "dc_date"),
    OrElse(GetDate(entry, "prism_publicationdate"),
    OrElse(GetDate(entry, "pubDate"), "")))))

(***************************************************************************)
(* PaperCollector._detect_journal_type                                     *)
(***************************************************************************)
WileyFragment    == <<"w", "i", "l", "e", "y", ".", "c", "o", "m">>
SpringerFragment == <<"s", "p", "r", "i", "n", "g", "e", "r", ".", "c", "o", "m">>
NejmFragment     == <<"n", "e", "j", "m", ".", "o", "r", "g">>
LancetFragment   == <<"t", "h", "e", "l", "a", "n", "c", "e", "t", ".", "c", "o", "m">>
JamaFragment     == <<"j", "a", "m", "a", "n", "e", "t", "w", "o", "r", "k", ".", "c", "o", "m">>
BmjFragment      == <<"b", "m", "j", ".", "c", "o", "m">>

_detect_journal_type_case_sensitive(u) ==
    IF Contains(u, WileyFragment) THEN "wiley"
    ELSE IF Contains(u, SpringerFragment) THEN "springer"
    ELSE IF Contains(u, NejmFragment) THEN "nejm"
    ELSE IF Contains(u, LancetFragment) THEN "lancet"
    ELSE IF Contains(u, JamaFragment) THEN "jama"
    ELSE IF Contains(u, BmjFragment) THEN "bmj"
    ELSE "generic"

_detect_journal_type(u) ==
    LET url_lower == Lower(u)
    IN  IF Contains(url_lower, WileyFragment) THEN "wiley"
        ELSE IF Contains(url_lower, SpringerFragment) THEN "springer"
        ELSE IF Contains(url_lower, NejmFragment) THEN "nejm"
        ELSE IF Contains(url_lower, LancetFragment) THEN "lancet"
        ELSE IF Contains(url_lower, JamaFragment) THEN "jama"
        ELSE IF Contains(url_lower, BmjFragment) THEN "bmj"
        ELSE "generic"

(***************************************************************************)
(* PaperCollector._extract_abstract                                        *)
(***************************************************************************)
NoAbstract == <<"N", "o", " ", "a", "b", "s", "t", "r", "a", "c", "t", " ",
                "a", "v", "a", "i", "l", "a", "b", "l", "e">>

raw_abstract(entry, jt) ==
    IF jt = "wiley"
    THEN OrElseText(GetText(entry, "dc_description"),
         OrElseText(GetText(entry, "description"), GetText(entry, "summary")))
    ELSE OrElseText(GetText(entry, "description"), GetText(entry, "summary"))

\* mutant: an abstract that cleans to nothing is returned as it is
_extract_abstract_no_sentinel(entry, jt) ==
    _clean_abstract(raw_abstract(entry, jt))

_extract_abstract(entry, jt) ==
    LET cleaned_abstract == _clean_abstract(raw_abstract(entry, jt))
    IN  IF cleaned_abstract # <<>> THEN cleaned_abstract ELSE NoAbstract

(***************************************************************************)
(* PaperCollector._parse_entry                                             *)
(***************************************************************************)
\* return None
None == [none |-> TRUE]

\* pub_date when the function reaches the title: the naive date, or None
\* when there is no date text or the parser raised
pub_date(entry) ==
    IF pub_date_str(entry) # "" /\ DateParses(pub_date_str(entry))
    THEN NaiveDate(pub_date_str(entry))
    ELSE NoneDate

\* mutant: the comparison with the cutoff is <=
TooOld_inclusive(entry, cutoff) ==
    /\ pub_date(entry) # NoneDate
    /\ pub_date(entry) <= cutoff

\* if pub_date < cutoff_date: return None
TooOld(entry, cutoff) ==
    /\ pub_date(entry) # NoneDate
    /\ pub_date(entry) < cutoff

\* mutant: the link is read with entry["link"], which raises when it is missing
_parse_entry_raises_on_missing_link(entry, cutoff, jt) == "link" \notin DOMAIN entry

\* An exception leaves _parse_entry: the only statement that can raise on
\* string fields is the date parse, and it is inside try/except Exception.
_parse_entry_raises(entry, cutoff, jt) == FALSE

\* mutant: only the title is checked before the record is built
_parse_entry_unchecked_link(entry, cutoff, jt) ==
    IF TooOld(entry, cutoff) THEN None
    ELSE LET title    == _clean_text(GetText(entry, "title"))
             link     == Strip(GetText(entry, "link"))
             abstract == _extract_abstract(entry, jt)
         IN  IF title = <<>> THEN None
             ELSE [title       |-> title,
                   link        |-> link,
                   abstract    |-> abstract,
                   published   |-> OrElse(pub_date_str(entry), "Unknown date"),
                   parsed_date |-> pub_date(entry)]

\* mutant: an entry whose date text does not parse is dropped
_parse_entry_drops_unparsed(entry, cutoff, jt) ==
    IF TooOld(entry, cutoff) \/ (pub_date_str(entry) # "" /\ pub_date(entry) = NoneDate)
    THEN None
    ELSE LET title    == _clean_text(GetText(entry, "title"))
             link     == Strip(GetText(entry, "link"))
             abstract == _extract_abstract(entry, jt)
         IN  IF title = <<>> \/ link = <<>> THEN None
             ELSE [title       |-> title,
                   link        |-> link,
                   abstract    |-> abstract,
                   published   |-> OrElse(pub_date_str(entry), "Unknown date"),
                   parsed_date |-> pub_date(entry)]

_parse_entry(entry, cutoff, jt) ==
    IF TooOld(entry, cutoff) THEN None
    ELSE LET title    == _clean_text(GetText(entry, "title"))
             link     == Strip(GetText(entry, "link"))
             abstract == _extract_abstract(entry, jt)
         IN  IF title = <<>> \/ link = <<>> THEN None
             ELSE [title       |-> title,
                   link        |-> link,
                   abstract    |-> abstract,
                   published   |-> OrElse(pub_date_str(entry), "Unknown date"),
                   parsed_date |-> pub_date(entry)]

(***************************************************************************)
(* The sort and the limit of fetch_papers                                  *)
(***************************************************************************)
\* key=lambda p: p.get('parsed_date') or datetime.min
SortKey(p) == IF p.parsed_date = NoneDate THEN DatetimeMin ELSE p.parsed_date

\* mutant: p is put before the elements with an equal key (an unstable sort)
InsertDesc_unstable(s, p) ==
    LET K == {k \in 1..Len(s) : SortKey(s[k]) <= SortKey(p)}
        a == IF K = {} THEN Len(s) + 1 ELSE Least(K)
    IN  SubSeq(s, 1, a - 1) \o <<p>> \o From(s, a)

\* p put into the sorted list s after every element whose key is not smaller
InsertDesc(s, p) ==
    LET K == {k \in 1..Len(s) : SortKey(s[k]) < SortKey(p)}
        a == IF K = {} THEN Len(s) + 1 ELSE Least(K)
    IN  SubSeq(s, 1, a - 1) \o <<p>> \o From(s, a)

\* mutant: the list is left in feed order
SortDesc_skipped(s) == s

\* papers.sort(key=..., reverse=True): a stable sort, largest key first
RECURSIVE SortDesc(_)
SortDesc(s) ==
    IF s = <<>> THEN <<>>
    ELSE InsertDesc(SortDesc(SubSeq(s, 1, Len(s) - 1)), s[Len(s)])

\* mutant: papers[:n + 1]
Limit_off_by_one(s, n) == SubSeq(s, 1, IF n + 1 < Len(s) THEN n + 1 ELSE Len(s))

\* papers[:n]
Limit(s, n) ==
    IF n >= 0
    THEN SubSeq(s, 1, IF n < Len(s) THEN n ELSE Len(s))
    ELSE SubSeq(s, 1, IF Len(s) + n > 0 THEN Len(s) + n ELSE 0)

\* mutant: the handler logs and raises again
ExceptReraise == [outcome |-> "raised", result |-> <<>>]

\* except Exception as e: logger.error(...); return []
ExceptReturn == [outcome |-> "returned", result |-> <<>>]

\* the list fetch_papers returns for feed f when the feed request succeeds
\* and no entry raises: the accepted entries, sorted, cut to n
RECURSIVE ParseAll(_, _, _)
ParseAll(f, cutoff, jt) ==
    IF f = <<>> THEN <<>>
    ELSE LET paper == _parse_entry(Head(f), cutoff, jt)
             rest == ParseAll(Tail(f), cutoff, jt)
         IN  IF paper # None THEN <<paper>> \o rest ELSE rest

Fetched(f, u, m, n, clock) ==
    Limit(SortDesc(ParseAll(f, clock - m * DaysPerMonth * HoursPerDay,
                            _detect_journal_type(u))), n)

(***************************************************************************)
(* Inputs                                                                  *)
(***************************************************************************)
MaxEntries == 3

MaxPapers == 2

MonthsBackChoices == {1, 2}

Urls == {<<"j", "a", "m", "a", "n", "e", "t", "w", "o", "r", "k", ".", "c", "o", "m", "/", "r">>,
         <<"W", "i", "l", "e", "y", ".", "c", "o", "m", "/", "r">>}

FeedEntries ==
    { [title |-> <<"A">>, link |-> <<"u">>, pubDate |-> "today",
       dc_description |-> <<"d">>, summary |-> <<"<", "p", ">", "s">>],
      [title |-> <<"B">>, link |-> <<"u", " ">>, updated |-> "yesterday",
       description |-> <<"<", "p", ">">>, summary |-> <<"s">>],
      [title |-> <<"C">>, link |-> <<"u">>, dc_date |-> "yesterday (ISO 8601)"],
      [title |-> <<"D">>, link |-> <<"u">>, published |-> "60 days ago",
       updated |-> "today"],
      [title |-> <<"E">>, link |-> <<"u">>, prism_publicationdate |-> "n/a",
       pubDate |-> "60 days ago"],
      [title |-> <<"F">>, link |-> <<"u">>],
      [title |-> <<"<", "b", ">">>, link |-> <<"u">>, published |-> "today"],
      [title |-> <<"G">>, published |-> "today"],
      [title |-> <<"H">>, link |-> <<" ">>] }

\* a feed lists an article once: the sequences of different entries, of length
\* at most n
Feeds(n) ==
    {f \in UNION {[1..k -> FeedEntries] : k \in 0..n} :
        \A i, j \in DOMAIN f : i # j => f[i] # f[j]}

\* the sequences over S of length at most n
SeqsUpTo(S, n) == UNION {[1..k -> S] : k \in 0..n}

(***************************************************************************)
(* fetch_papers                                                            *)
(***************************************************************************)
CleanIdle == text = <<>> /\ cleaner = "none" /\ cleaned = <<>>

\* no concurrent calls
ConcIdle == calls = <<>> /\ jar = {}

\* the application is not running
AppIdle == session = <<>> /\ period = 0

Init ==
    /\ url \in Urls
    /\ months_back \in MonthsBackChoices
    /\ max_papers \in {1, MaxPapers}
    /\ now = Clock
    /\ feed \in Feeds(MaxEntries)
    /\ pc = "start"
    /\ requests = <<>>
    /\ status = "pending"
    /\ journal_type = ""
    /\ cutoff_date = NoneDate
    /\ idx = 0
    /\ papers = <<>>
    /\ outcome = "running"
    /\ result = <<>>
    /\ CleanIdle
    /\ ConcIdle
    /\ AppIdle

\* the call ends in the handler of the outer try
Except ==
    /\ pc' = "done"
    /\ outcome' = ExceptReturn.outcome
    /\ result' = ExceptReturn.result

\* mutant: a failure of the warm-up request ends the call
WarmUp_failure_fatal ==
    /\ pc = "start"
    /\ Contains(url, JamaFragment)
    /\ \E ok \in BOOLEAN :
           /\ requests' = Append(requests, [to |-> "landing", ok |-> ok])
           /\ IF ok THEN pc' = "get" /\ UNCHANGED <<outcome, result>> ELSE Except
    /\ UNCHANGED <<url, months_back, max_papers, now, feed, status, journal_type,
                   cutoff_date, idx, papers, cleanVars, concVars, appVars>>

\* if 'jamanetwork.com' in url: try: self.scraper.get(landing page) except: pass
WarmUp ==
    /\ pc = "start"
    /\ Contains(url, JamaFragment)
    /\ \E ok \in BOOLEAN :
           requests' = Append(requests, [to |-> "landing", ok |-> ok])
    /\ pc' = "get"
    /\ UNCHANGED <<url, months_back, max_papers, now, feed, status, journal_type,
                   cutoff_date, idx, papers, outcome, result, cleanVars,
                   concVars, appVars>>

NoWarmUp ==
    /\ pc = "start"
    /\ ~Contains(url, JamaFragment)
    /\ pc' = "get"
    /\ UNCHANGED <<url, months_back, max_papers, now, feed, requests, status,
                   journal_type, cutoff_date, idx, papers, outcome, result, cleanVars,
                   concVars, appVars>>

\* response = self.scraper.get(url, timeout=10); response.raise_for_status()
\* fails: the request raises (connection error, timeout) or the status is not 2xx
FetchFails ==
    /\ pc = "get"
    /\ \E st \in {"connection_error", "timeout", "http_error"} : status' = st
    /\ requests' = Append(requests, [to |-> "feed", ok |-> FALSE])
    /\ Except
    /\ UNCHANGED <<url, months_back, max_papers, now, feed, journal_type,
                   cutoff_date, idx, papers, cleanVars,
                   concVars, appVars>>

\* the request succeeds: the feed is parsed, the journal type detected, and
\* papers and cutoff_date are set
FetchFeed ==
    /\ pc = "get"
    /\ status' = "ok"
    /\ requests' = Append(requests, [to |-> "feed", ok |-> TRUE])
    /\ journal_type' = _detect_journal_type(url)
    /\ papers' = <<>>
    /\ cutoff_date' = now - months_back * DaysPerMonth * HoursPerDay
    /\ idx' = 1
    /\ pc' = "loop"
    /\ UNCHANGED <<url, months_back, max_papers, now, feed, outcome, result, cleanVars,
                   concVars, appVars>>

\* one iteration of: for entry in feed.entries
ParseEntry ==
    /\ pc = "loop"
    /\ idx <= Len(feed)
    /\ IF _parse_entry_raises(feed[idx], cutoff_date, journal_type)
       THEN Except /\ UNCHANGED <<idx, papers>>
       ELSE /\ LET paper == _parse_entry(feed[idx], cutoff_date, journal_type)
               IN  papers' = IF paper # None THEN Append(papers, paper) ELSE papers
            /\ idx' = idx + 1
            /\ UNCHANGED <<pc, outcome, result>>
    /\ UNCHANGED <<url, months_back, max_papers, now, feed, requests, status,
                   journal_type, cutoff_date, cleanVars,
                   concVars, appVars>>

\* papers.sort(key=..., reverse=True)
Sort ==
    /\ pc = "loop"
    /\ idx > Len(feed)
    /\ papers' = SortDesc(papers)
    /\ pc' = "limit"
    /\ UNCHANGED <<url, months_back, max_papers, now, feed, requests, status,
                   journal_type, cutoff_date, idx, outcome, result, cleanVars,
                   concVars, appVars>>

\* papers = papers[:max_papers]; return papers
Return ==
    /\ pc = "limit"
    /\ papers' = Limit(papers, max_papers)
    /\ result' = Limit(papers, max_papers)
    /\ outcome' = "returned"
    /\ pc' = "done"
    /\ UNCHANGED <<url, months_back, max_papers, now, feed, requests, status,
                   journal_type, cutoff_date, idx, cleanVars,
                   concVars, appVars>>

Next ==
    \/ WarmUp
    \/ NoWarmUp
    \/ FetchFails
    \/ FetchFeed
    \/ ParseEntry
    \/ Sort
    \/ Return

Spec == Init /\ [][Next]_vars

(***************************************************************************)
(* The cleaning functions on their own: a text is cleaned, and the result  *)
(* cleaned again.                                                          *)
(***************************************************************************)
MaxFragments == 3

MaxCleanings == 2

Fragments ==
    { <<"<", "p", ">">>,
      <<"A", "B", "S", "T", "R", "A", "C", "T">>,
      <<"a", "b", "s", "t", "r", "a", "c", "t">>,
      <<" ">>,
      <<"B", "a", "c", "k", "g", "r", "o", "u", "n", "d">>,
      <<"m", "e", "t", "h", "o", "d", "s">>,
      <<":">>,
      <<"x">>,
      <<"&", "a", "m", "p", ";">>,
      <<"&", "l", "t", ";">>,
      <<"l", "t", ";">>,
      <<"\n">> }

RECURSIVE Concat(_)
Concat(ss) == IF ss = <<>> THEN <<>> ELSE Head(ss) \o Concat(Tail(ss))

\* "<p>ABSTRACT Background: Drug X reduces risk.</p>"
ScenarioAbstract ==
    <<"<", "p", ">", "A", "B", "S", "T", "R", "A", "C", "T", " ",
      "B", "a", "c", "k", "g", "r", "o", "u", "n", "d", ":", " ",
      "D", "r", "u", "g", " ", "X", " ", "r", "e", "d", "u", "c", "e", "s", " ",
      "r", "i", "s", "k", ".", "<", "/", "p", ">">>

\* "a<b>c": a tag between two letters
TagBetweenLetters == <<"a", "<", "b", ">", "c">>

Texts ==
    {Concat(ss) : ss \in SeqsUpTo(Fragments, MaxFragments)}
        \cup {ScenarioAbstract, TagBetweenLetters}

CallIdle ==
    /\ url = <<>>
    /\ months_back = 1
    /\ max_papers = 1
    /\ now = Clock
    /\ feed = <<>>
    /\ pc = "idle"
    /\ requests = <<>>
    /\ status = "pending"
    /\ journal_type = ""
    /\ cutoff_date = NoneDate
    /\ idx = 0
    /\ papers = <<>>
    /\ outcome = "running"
    /\ result = <<>>

InitClean ==
    /\ text \in Texts
    /\ cleaner \in {"abstract", "title"}
    /\ cleaned = <<>>
    /\ CallIdle
    /\ ConcIdle
    /\ AppIdle

\* the text the next cleaning is applied to
Uncleaned == IF cleaned = <<>> THEN text ELSE cleaned[Len(cleaned)]

CleanAbstract ==
    /\ cleaner = "abstract"
    /\ Len(cleaned) < MaxCleanings
    /\ cleaned' = Append(cleaned, _clean_abstract(Uncleaned))
    /\ UNCHANGED <<text, cleaner, callVars, concVars, appVars>>

CleanTitle ==
    /\ cleaner = "title"
    /\ Len(cleaned) < MaxCleanings
    /\ cleaned' = Append(cleaned, _clean_text(Uncleaned))
    /\ UNCHANGED <<text, cleaner, callVars, concVars, appVars>>

NextClean == CleanAbstract \/ CleanTitle

SpecClean == InitClean /\ [][NextClean]_vars

(***************************************************************************)
(* fetch_papers on feeds whose dates carry a UTC offset: "yesterday +02:00" *)
(* is the instant of "yesterday", and "60 days ago -05:00" the instant of  *)
(* "60 days ago", written in another time zone.                            *)
(***************************************************************************)
OffsetEntries ==
    { [title |-> <<"P">>, link |-> <<"u">>, published |-> "yesterday"],
      [title |-> <<"Q">>, link |-> <<"u">>, published |-> "yesterday +02:00"],
      [title |-> <<"R">>, link |-> <<"u">>, published |-> "60 days ago"],
      [title |-> <<"S">>, link |-> <<"u">>, published |-> "60 days ago -05:00"] }

InitOffsets ==
    /\ url \in Urls
    /\ months_back \in MonthsBackChoices
    /\ max_papers \in {1, MaxPapers}
    /\ now = Clock
    /\ feed \in {f \in SeqsUpTo(OffsetEntries, MaxEntries) :
                     \A i, j \in DOMAIN f : i # j => f[i] # f[j]}
    /\ pc = "start"
    /\ requests = <<>>
    /\ status = "pending"
    /\ journal_type = ""
    /\ cutoff_date = NoneDate
    /\ idx = 0
    /\ papers = <<>>
    /\ outcome = "running"
    /\ result = <<>>
    /\ CleanIdle
    /\ ConcIdle
    /\ AppIdle

SpecOffsets == InitOffsets /\ [][Next]_vars

(***************************************************************************)
(* Concurrent calls of fetch_papers on one collector, for different URLs.  *)
(* Each call has its own locals (calls[c]); the calls share self.scraper,  *)
(* a session whose cookie jar the response of the warm-up writes ("Visit   *)
(* homepage first to set cookies") and every request to the same site      *)
(* reads ("handles cookies/headers").  jar holds the call whose warm-up    *)
(* set the cookie the jar holds now, and calls[c].cookies the calls whose  *)
(* cookie was attached to a request of call c.                             *)
(***************************************************************************)
NumCalls == 2

ConcUrls ==
    { <<"j", "a", "m", "a", "n", "e", "t", "w", "o", "r", "k", ".", "c", "o", "m", "/", "r">>,
      <<"j", "a", "m", "a", "n", "e", "t", "w", "o", "r", "k", ".", "c", "o", "m", "/", "s">>,
      <<"W", "i", "l", "e", "y", ".", "c", "o", "m", "/", "r">> }

\* the response of the server to the feed request for u: each URL has its feed
FeedAt(u) ==
    LET last == u[Len(u)]
        site == u[1]
        A == [title |-> <<"A">>, link |-> <<"u">>, pubDate |-> "today",
              dc_description |-> <<"d">>, summary |-> <<"<", "p", ">", "s">>]
        C == [title |-> <<"C">>, link |-> <<"u">>, dc_date |-> "yesterday (ISO 8601)"]
        D == [title |-> <<"D">>, link |-> <<"u">>, published |-> "60 days ago",
              updated |-> "today"]
        F == [title |-> <<"F">>, link |-> <<"u">>]
    IN  IF site = "j" /\ last = "r" THEN <<D, A>>
        ELSE IF site = "j" THEN <<F, C>>
        ELSE <<A>>

\* the request for u goes to the site of the landing page
ToJamaSite(u) ==
    Len(u) >= Len(JamaFragment) /\ SubSeq(u, 1, Len(JamaFragment)) = JamaFragment

InitConc ==
    /\ \E us \in [1..NumCalls -> ConcUrls] : \E m \in MonthsBackChoices :
       \E n \in {1, MaxPapers} :
           /\ \A c, d \in 1..NumCalls : c # d => us[c] # us[d]
           /\ calls = [c \in 1..NumCalls |->
                          [url |-> us[c], months_back |-> m, max_papers |-> n,
                           feed |-> FeedAt(us[c]), pc |-> "start",
                           status |-> "pending", journal_type |-> "",
                           cutoff_date |-> NoneDate, idx |-> 0, papers |-> <<>>,
                           outcome |-> "running", result |-> <<>>,
                           cookies |-> {}]]
    /\ jar = {}
    /\ CallIdle
    /\ CleanIdle
    /\ AppIdle

\* mutant: the list of papers is an attribute of the collector, which all
\* calls append to
AppendPaper_shared(all, c, paper) ==
    [d \in DOMAIN all |-> [all[d] EXCEPT !.papers = Append(@, paper)]]

\* papers.append(paper): papers is a local of the call
AppendPaper(all, c, paper) ==
    [all EXCEPT ![c].papers = Append(@, paper)]

\* the warm-up of call c: the request carries the cookie of the jar, and the
\* response, when there is one, sets the cookie
ConcWarmUp(c) ==
    /\ calls[c].pc = "start"
    /\ Contains(calls[c].url, JamaFragment)
    /\ \E ok \in BOOLEAN :
           /\ jar' = IF ok THEN {c} ELSE jar
           /\ calls' = [calls EXCEPT ![c].pc = "get",
                                     ![c].cookies = @ \cup jar]
    /\ UNCHANGED <<callVars, cleanVars, appVars>>

ConcNoWarmUp(c) ==
    /\ calls[c].pc = "start"
    /\ ~Contains(calls[c].url, JamaFragment)
    /\ calls' = [calls EXCEPT ![c].pc = "get"]
    /\ UNCHANGED <<jar, callVars, cleanVars, appVars>>

\* the cookies attached to the feed request of call c
Attached(c) == IF ToJamaSite(calls[c].url) THEN jar ELSE {}

ConcFetchFails(c) ==
    /\ calls[c].pc = "get"
    /\ \E st \in {"connection_error", "timeout", "http_error"} :
           calls' = [calls EXCEPT ![c].status = st,
                                  ![c].cookies = @ \cup Attached(c),
                                  ![c].pc = "done",
                                  ![c].outcome = ExceptReturn.outcome,
                                  ![c].result = ExceptReturn.result]
    /\ UNCHANGED <<jar, callVars, cleanVars, appVars>>

ConcFetchFeed(c) ==
    /\ calls[c].pc = "get"
    /\ calls' = [calls EXCEPT
           ![c].status = "ok",
           ![c].cookies = @ \cup Attached(c),
           ![c].journal_type = _detect_journal_type(calls[c].url),
           ![c].papers = <<>>,
           ![c].cutoff_date =
               now - calls[c].months_back * DaysPerMonth * HoursPerDay,
           ![c].idx = 1,
           ![c].pc = "loop"]
    /\ UNCHANGED <<jar, callVars, cleanVars, appVars>>

ConcParseEntry(c) ==
    /\ calls[c].pc = "loop"
    /\ calls[c].idx <= Len(calls[c].feed)
    /\ LET paper == _parse_entry(calls[c].feed[calls[c].idx],
                                 calls[c].cutoff_date, calls[c].journal_type)
           next == [calls EXCEPT ![c].idx = @ + 1]
       IN  calls' = IF paper # None THEN AppendPaper(next, c, paper) ELSE next
    /\ UNCHANGED <<jar, callVars, cleanVars, appVars>>

ConcSort(c) ==
    /\ calls[c].pc = "loop"
    /\ calls[c].idx > Len(calls[c].feed)
    /\ calls' = [calls EXCEPT ![c].papers = SortDesc(@), ![c].pc = "limit"]
    /\ UNCHANGED <<jar, callVars, cleanVars, appVars>>

ConcReturn(c) ==
    /\ calls[c].pc = "limit"
    /\ calls' = [calls EXCEPT
           ![c].papers = Limit(@, calls[c].max_papers),
           ![c].result = Limit(calls[c].papers, calls[c].max_papers),
           ![c].outcome = "returned",
           ![c].pc = "done"]
    /\ UNCHANGED <<jar, callVars, cleanVars, appVars>>

NextConc ==
    \E c \in 1..NumCalls :
        \/ ConcWarmUp(c)
        \/ ConcNoWarmUp(c)
        \/ ConcFetchFails(c)
        \/ ConcFetchFeed(c)
        \/ ConcParseEntry(c)
        \/ ConcSort(c)
        \/ ConcReturn(c)

SpecConc == InitConc /\ [][NextConc]_vars

(***************************************************************************)
(* The application (src/app.py).  Streamlit runs main() from top to bottom *)
(* once when the page is opened and once after every change of a widget;   *)
(* an action of the model is one such run.  A key of st.session_state is a *)
(* text, as the f-strings of main() build it.  A paper is the record of    *)
(* fetch_papers reduced to its source and the age of its date in months; a *)
(* trend text is a record of its kind and of the papers given to the       *)
(* analyzer.                                                               *)
(***************************************************************************)
TimePeriods == {3, 6, 12}

DefaultPeriod == 3

\* get_journals_by_category(), for two of the categories
Categories ==
    << [name |-> <<"C", "a", "r", "d", "i", "o", "l", "o", "g", "y">>,
        journals |-> << <<"J", "A", "M", "A", " ", "C", "a", "r", "d", "i", "o", "l", "o", "g", "y">>,
                        <<"H", "e", "a", "r", "t">> >>],
       [name |-> <<"S", "u", "r", "g", "e", "r", "y">>,
        journals |-> << <<"J", "A", "M", "A", " ", "S", "u", "r", "g", "e", "r", "y">> >>] >>

\* the ages in months of the articles a feed holds
ArticleAges == <<1, 4, 8>>

ResultPrefix == <<"r", "e", "s", "u", "l", "t", "_">>

PapersPrefix == <<"p", "a", "p", "e", "r", "s", "_">>

ChkPrefix == <<"c", "h", "k", "_">>

LastMonthsBack == <<"l", "a", "s", "t", "_", "m", "o", "n", "t", "h", "s", "_", "b", "a", "c", "k">>

\* f"result_{category}", f"papers_{category}", f"chk_{category}_{journal['name']}"
ResultKey(category) == ResultPrefix \o category

PapersKey(category) == PapersPrefix \o category

ChkKey(category, journal) == ChkPrefix \o category \o <<"_">> \o journal

\* k.startswith(prefix)
StartsWith(k, prefix) ==
    Len(k) >= Len(prefix) /\ SubSeq(k, 1, Len(prefix)) = prefix

\* st.session_state[k] = v
Put(state, k, v) ==
    [x \in DOMAIN state \cup {k} |-> IF x = k THEN v ELSE state[x]]

\* mutant: only the results are removed
clear_analysis_cache_results_only(state) ==
    LET keys_to_clear == {k \in DOMAIN state : StartsWith(k, ResultPrefix)}
    IN  [k \in DOMAIN state \ keys_to_clear |-> state[k]]

clear_analysis_cache(state) ==
    LET keys_to_clear ==
            {k \in DOMAIN state :
                StartsWith(k, ResultPrefix) \/ StartsWith(k, PapersPrefix)}
    IN  [k \in DOMAIN state \ keys_to_clear |-> state[k]]

\* the cache invalidation logic of the sidebar
CacheInvalidation(state, m) ==
    IF LastMonthsBack \notin DOMAIN state THEN Put(state, LastMonthsBack, m)
    ELSE IF state[LastMonthsBack] # m
         THEN Put(clear_analysis_cache(state), LastMonthsBack, m)
         ELSE state

\* the keys of the checkboxes of all tabs
ChkKeys ==
    UNION {{ChkKey(Categories[c].name, Categories[c].journals[j]) :
               j \in DOMAIN Categories[c].journals} : c \in DOMAIN Categories}

\* st.checkbox(..., value=True, key=...): a checkbox that has no state yet
\* gets the state True
Checkboxes(state) ==
    [k \in DOMAIN state \cup ChkKeys |->
        IF k \in DOMAIN state THEN state[k] ELSE TRUE]

\* the journals of category c whose checkbox is checked, in the order of the
\* configuration
selected_journals(state, c) ==
    LET Checked(journal) == state[ChkKey(Categories[c].name, journal)]
    IN  SelectSeq(Categories[c].journals, Checked)

\* what fetch_papers returns for a journal when the feed is fetched: the
\* articles inside the time period, newest first, each with its source
Window(journal, m) ==
    LET Inside(a) == a <= m
        ages == SelectSeq(ArticleAges, Inside)
    IN  [k \in DOMAIN ages |-> [source |-> journal, age |-> ages[k]]]

\* all_papers: fetched[journal] tells whether the feed of the journal was
\* fetched; fetch_papers returns [] when it was not
AllPapers(selected, m, fetched) ==
    Concat([k \in DOMAIN selected |->
               IF fetched[selected[k]] THEN Window(selected[k], m) ELSE <<>>])

\* the outcomes of the analysis: a report, the warning text analyze_trends
\* returns when the chat request fails, or an exception
AnalysisOutcomes == {"report", "warning", "raise"}

\* the branch "if analyze_btn and selected_journals" for category c
AnalyzeBranch(state, c, m, fetched, analysis) ==
    LET result_key == ResultKey(Categories[c].name)
        papers_key == PapersKey(Categories[c].name)
        all_papers == AllPapers(selected_journals(state, c), m, fetched)
    IN  IF all_papers = <<>> THEN state
        ELSE IF analysis = "raise" THEN Put(state, papers_key, all_papers)
        ELSE Put(Put(state, papers_key, all_papers), result_key,
                 [text |-> analysis, papers |-> all_papers])

\* one run of main(): m is the value of the selectbox and click the category
\* whose Analyze button was clicked, 0 when none was
main(state, m, click, fetched, analysis) ==
    LET shown == Checkboxes(CacheInvalidation(state, m))
    IN  IF click # 0 /\ selected_journals(shown, click) # <<>>
        THEN AnalyzeBranch(shown, click, m, fetched, analysis)
        ELSE shown

NoFetch == [j \in {} |-> FALSE]

InitApp ==
    /\ session = <<>>
    /\ period = DefaultPeriod
    /\ CallIdle
    /\ CleanIdle
    /\ ConcIdle

\* the page is opened: the first run
Open ==
    /\ LastMonthsBack \notin DOMAIN session
    /\ session' = main(session, period, 0, NoFetch, "report")
    /\ UNCHANGED <<period, callVars, cleanVars, concVars>>

\* the user selects another time period
SelectPeriod ==
    /\ LastMonthsBack \in DOMAIN session
    /\ \E m \in TimePeriods \ {period} :
           /\ period' = m
           /\ session' = main(session, m, 0, NoFetch, "report")
    /\ UNCHANGED <<callVars, cleanVars, concVars>>

\* the user checks or unchecks a journal
ToggleJournal ==
    /\ LastMonthsBack \in DOMAIN session
    /\ \E k \in ChkKeys :
           session' = main(Put(session, k, ~session[k]), period, 0, NoFetch, "report")
    /\ UNCHANGED <<period, callVars, cleanVars, concVars>>

\* the user clicks the Analyze button of a category; the button is disabled
\* when no journal of the category is selected
ClickAnalyze ==
    /\ LastMonthsBack \in DOMAIN session
    /\ \E c \in DOMAIN Categories :
           /\ selected_journals(session, c) # <<>>
           /\ \E fetched \in [{Categories[c].journals[j] :
                                 j \in DOMAIN Categories[c].journals} -> BOOLEAN] :
              \E analysis \in AnalysisOutcomes :
                  session' = main(session, period, c, fetched, analysis)
    /\ UNCHANGED <<period, callVars, cleanVars, concVars>>

NextApp == Open \/ SelectPeriod \/ ToggleJournal \/ ClickAnalyze

SpecApp == InitApp /\ [][NextApp]_vars

(***************************************************************************)
(* _detect_journal_type applied to URLs that hold none, one or several of  *)
(* the publisher fragments, in either case                                 *)
(***************************************************************************)
MaxUrlParts == 2

UrlParts ==
    { <<"w", "i", "l", "e", "y", ".", "c", "o", "m">>,
      <<"w", "i", "l", "e", "y", ".", "c", "o">>,
      <<"m">>,
      <<"S", "P", "R", "I", "N", "G", "E", "R", ".", "c", "o", "m">>,
      <<"n", "e", "j", "m", ".", "o", "r", "g">>,
      <<"T", "h", "e", "L", "a", "n", "c", "e", "t", ".", "c", "o", "m">>,
      <<"j", "a", "m", "a", "n", "e", "t", "w", "o", "r", "k", ".", "c", "o", "m">>,
      <<"B", "M", "J", ".", "C", "O", "M">>,
      <<"/", "r", "s", "s">> }

ClassifiedUrls == {Concat(ss) : ss \in SeqsUpTo(UrlParts, MaxUrlParts)}

InitClassify ==
    /\ url \in ClassifiedUrls
    /\ months_back = 1
    /\ max_papers = 1
    /\ now = Clock
    /\ feed = <<>>
    /\ pc = "classify"
    /\ requests = <<>>
    /\ status = "pending"
    /\ journal_type = ""
    /\ cutoff_date = NoneDate
    /\ idx = 0
    /\ papers = <<>>
    /\ outcome = "running"
    /\ result = <<>>
    /\ CleanIdle
    /\ ConcIdle
    /\ AppIdle

\* journal_type = self._detect_journal_type(url)
Classify ==
    /\ pc = "classify"
    /\ journal_type' = _detect_journal_type(url)
    /\ pc' = "classified"
    /\ UNCHANGED <<url, months_back, max_papers, now, feed, requests, status,
                   cutoff_date, idx, papers, outcome, result, cleanVars,
                   concVars, appVars>>

NextClassify == Classify

SpecClassify == InitClassify /\ [][NextClassify]_vars

(***************************************************************************)
(* Properties of fetch_papers.  They are stated on the feed and on the     *)
(* arguments of the call, not on the locals of the code.  The entries of   *)
(* FeedEntries that have a title have different titles, so a record is     *)
(* traced to its entry by its title.                                       *)
(***************************************************************************)
FetchFailures == {"connection_error", "timeout", "http_error"}

Returned == pc = "done" /\ status = "ok"

\* now - months_back * 30 days, in hours
Cutoff == now - months_back * 30 * 24

\* the cleaned title of each entry
EntryTitle == [e \in FeedEntries |-> _clean_text(GetText(e, "title"))]

TitleOf(e) == EntryTitle[e]

HasTitle(e) == TitleOf(e) # <<>>

EntryHasLink ==
    [e \in FeedEntries |->
        "link" \in DOMAIN e /\ \E k \in DOMAIN e.link : ~IsSpace(e.link[k])]

HasLink(e) == EntryHasLink[e]

\* the first non-empty date field of each entry, in the priority order of the
\* feed fields
EntryDateText ==
    [e \in FeedEntries |->
        LET F == <<"published", "updated", "dc_date", "prism_publicationdate",
                   "pubDate">>
            K == {k \in DOMAIN F : F[k] \in DOMAIN e /\ e[F[k]] # ""}
        IN  IF K = {} THEN "" ELSE e[F[Least(K)]]]

DateText(e) == EntryDateText[e]

Parsable(e) == DateText(e) \in DOMAIN DateReading

\* the timestamp of the entry, NoneDate when it has none
EntryDate(e) == IF Parsable(e) THEN DateReading[DateText(e)].wall ELSE NoneDate

BeforeCutoff(e) == Parsable(e) /\ EntryDate(e) < Cutoff

\* the entry parser accepts the entry
Kept(e) == ~BeforeCutoff(e) /\ HasTitle(e) /\ HasLink(e)

\* the entry is malformed: it has no title, no link, or a date that does not parse
Malformed(e) == ~HasTitle(e) \/ ~HasLink(e) \/ (DateText(e) # "" /\ ~Parsable(e))

\* the number of records of list s that come from entry e
Occurs(s, e) == Cardinality({k \in DOMAIN s : s[k].title = TitleOf(e)})

\* the number of times the feed holds entry e
InFeed(e) == Cardinality({i \in DOMAIN feed : feed[i] = e})

KeptCount == Cardinality({i \in DOMAIN feed : Kept(feed[i])})

TitlesOf(s) == [k \in DOMAIN s |-> s[k].title]

\* the titles of the kept entries among the first n of the feed, in feed order
KeptTitles(n) ==
    LET IsKept(e) == Kept(e)
    IN  [k \in DOMAIN SelectSeq(SubSeq(feed, 1, n), IsKept) |->
            TitleOf(SelectSeq(SubSeq(feed, 1, n), IsKept)[k])]

IsPrefix(a, b) == Len(a) <= Len(b) /\ SubSeq(b, 1, Len(a)) = a

Smaller(a, b) == IF a < b THEN a ELSE b

\* C1: every record that fetch_papers collects or returns has a non-empty
\* cleaned title and a non-empty trimmed link, and no record comes from an
\* entry whose cleaned title is empty or whose link is missing, empty or
\* whitespace-only, whatever its title and date are.
C1_NonEmptyTitleAndLink ==
    \A s \in {papers, result} :
        /\ \A k \in DOMAIN s :
               /\ s[k].title # <<>>
               /\ s[k].link # <<>>
               /\ ~IsSpace(s[k].link[1])
               /\ ~IsSpace(s[k].link[Len(s[k].link)])
        /\ \A i \in DOMAIN feed :
               ~HasTitle(feed[i]) \/ ~HasLink(feed[i]) => Occurs(s, feed[i]) = 0

C1_Witness ==
    /\ Returned
    /\ result # <<>>
    /\ \E i \in DOMAIN feed : ~HasTitle(feed[i])
    /\ \E i \in DOMAIN feed :
           /\ "link" \notin DOMAIN feed[i]
           /\ HasTitle(feed[i])
           /\ Parsable(feed[i])
           /\ ~BeforeCutoff(feed[i])

\* C2: the cutoff is now - months_back * 30 days; no record comes from an entry
\* whose date parses to a time strictly before the cutoff, and the date filter
\* rejects nothing else: every entry with a title and a link whose date is at
\* the cutoff or later, or does not parse, or is absent, is accepted.
C2_CutoffFilter ==
    /\ pc \in {"loop", "limit"} \/ Returned => cutoff_date = Cutoff
    /\ \A s \in {papers, result} : \A i \in DOMAIN feed :
           BeforeCutoff(feed[i]) => Occurs(s, feed[i]) = 0
    /\ pc = "limit" =>
           \A i \in DOMAIN feed :
               ~BeforeCutoff(feed[i]) /\ HasTitle(feed[i]) /\ HasLink(feed[i])
                   => Occurs(papers, feed[i]) = InFeed(feed[i])

C2_Witness ==
    /\ Returned
    /\ \E i \in DOMAIN feed :
           /\ BeforeCutoff(feed[i]) /\ HasTitle(feed[i]) /\ HasLink(feed[i])
           /\ Occurs(result, feed[i]) = 0
    /\ \E i \in DOMAIN feed :
           /\ Parsable(feed[i]) /\ EntryDate(feed[i]) >= Cutoff
           /\ Occurs(result, feed[i]) = 1

\* C3 as claimed: every entry whose date is absent or does not parse is in the
\* returned list, with an absent timestamp and with the raw date text, or
\* "Unknown date" when there is none, as display date.
C3_UndatedAlwaysInOutput ==
    Returned =>
        \A i \in DOMAIN feed :
            ~Parsable(feed[i]) =>
                \E k \in DOMAIN result :
                    /\ result[k].title = TitleOf(feed[i])
                    /\ result[k].parsed_date = NoneDate
                    /\ result[k].published =
                           IF DateText(feed[i]) = "" THEN "Unknown date"
                           ELSE DateText(feed[i])

\* C3 as amended: an entry whose date is absent or does not parse is never
\* filtered by the cutoff.  If its cleaned title and trimmed link are not empty
\* the entry parser accepts it, with an absent timestamp and with the raw date
\* text, or "Unknown date" when there is none, as display date, and it is in the
\* returned list unless the limit of max_papers cuts it off.
C3_UndatedAccepted ==
    /\ \A s \in {papers, result} : \A i \in DOMAIN feed : \A k \in DOMAIN s :
           ~Parsable(feed[i]) /\ s[k].title = TitleOf(feed[i]) =>
               /\ s[k].parsed_date = NoneDate
               /\ s[k].published =
                      IF DateText(feed[i]) = "" THEN "Unknown date"
                      ELSE DateText(feed[i])
    /\ \A i \in DOMAIN feed :
           ~Parsable(feed[i]) /\ HasTitle(feed[i]) /\ HasLink(feed[i]) =>
               /\ pc = "limit" => Occurs(papers, feed[i]) = InFeed(feed[i])
               /\ Returned /\ KeptCount <= max_papers
                      => Occurs(result, feed[i]) = InFeed(feed[i])

C3_Witness ==
    /\ Returned
    /\ \E k \in DOMAIN result :
           result[k].published = "Unknown date" /\ result[k].parsed_date = NoneDate
    /\ \E k \in DOMAIN result :
           result[k].published = "n/a" /\ result[k].parsed_date = NoneDate

\* C4: the returned list is sorted by timestamp, newest first; every record
\* without a timestamp comes after every record with one; and records with
\* equal timestamps (or both without one) are in the order of their entries
\* in the feed.
C4_StableDescending ==
    Returned =>
        /\ \A j, k \in DOMAIN result :
               /\ j < k /\ result[j].parsed_date # NoneDate
                        /\ result[k].parsed_date # NoneDate
                      => result[j].parsed_date >= result[k].parsed_date
               /\ result[j].parsed_date = NoneDate /\ result[k].parsed_date # NoneDate
                      => k < j
        /\ \A v \in {result[k].parsed_date : k \in DOMAIN result} :
               LET SameDate(p) == p.parsed_date = v
                   SameDateKept(e) == Kept(e) /\ EntryDate(e) = v
               IN  IsPrefix(TitlesOf(SelectSeq(result, SameDate)),
                            [k \in DOMAIN SelectSeq(feed, SameDateKept) |->
                                TitleOf(SelectSeq(feed, SameDateKept)[k])])

C4_Witness ==
    /\ Returned
    /\ \E j, k \in DOMAIN result :
           /\ j < k
           /\ result[j].parsed_date = result[k].parsed_date
           /\ result[j].parsed_date # NoneDate
           /\ result[j].title # result[k].title
    /\ \E i, j \in DOMAIN feed :
           /\ i < j
           /\ ~Parsable(feed[i]) /\ Kept(feed[i])
           /\ Parsable(feed[j]) /\ Kept(feed[j])

\* C5: the returned list is never longer than max_papers.
C5_AtMostMaxPapers == pc = "done" => Len(result) <= max_papers

C5_Witness ==
    /\ Returned
    /\ KeptCount > max_papers
    /\ Len(result) = max_papers

\* C6: the returned list holds the max_papers most recent accepted entries,
\* newest first: it has min(max_papers, number of accepted entries) records,
\* each from an accepted entry and no entry more often than the feed holds it,
\* and no accepted entry that is left out is newer than a returned one.  For
\* a feed dated today, yesterday and before the cutoff (60 days ago), with
\* months_back = 1, the list is the first two entries, newest first.
C6_MostRecent ==
    Returned =>
        /\ Len(result) = Smaller(max_papers, KeptCount)
        /\ \A k \in DOMAIN result :
               \E i \in DOMAIN feed :
                   /\ Kept(feed[i])
                   /\ result[k].title = TitleOf(feed[i])
                   /\ result[k].parsed_date = EntryDate(feed[i])
                   /\ Occurs(result, feed[i]) <= InFeed(feed[i])
        /\ \A j, k \in DOMAIN result :
               j < k => result[j].parsed_date >= result[k].parsed_date
        /\ \A i \in DOMAIN feed : \A k \in DOMAIN result :
               Kept(feed[i]) /\ Occurs(result, feed[i]) < InFeed(feed[i])
                   => EntryDate(feed[i]) <= result[k].parsed_date
        /\ (/\ Len(feed) = 3
            /\ DateText(feed[1]) = "today"
            /\ DateText(feed[2]) = "yesterday"
            /\ DateText(feed[3]) = "60 days ago"
            /\ \A i \in 1..3 : HasTitle(feed[i]) /\ HasLink(feed[i])
            /\ months_back = 1
            /\ max_papers >= 2)
               => TitlesOf(result) = <<TitleOf(feed[1]), TitleOf(feed[2])>>

C6_Witness ==
    /\ Returned
    /\ Len(feed) = 3
    /\ DateText(feed[1]) = "60 days ago"
    /\ DateText(feed[2]) = "yesterday"
    /\ DateText(feed[3]) = "today"
    /\ months_back = 1
    /\ TitlesOf(result) = <<TitleOf(feed[3]), TitleOf(feed[2])>>

\* C7: fetch_papers never raises: the call ends by returning a list, and when
\* the feed request fails (connection error, timeout, status not 2xx) the call
\* has ended and the list is empty.
C7_NeverRaises ==
    /\ outcome # "raised"
    /\ pc = "done" => outcome = "returned"
    /\ status \in FetchFailures => pc = "done" /\ result = <<>>

C7_Witness ==
    /\ pc = "done"
    /\ status = "timeout"
    /\ outcome = "returned"
    /\ result = <<>>
    /\ feed # <<>>

DateFields(e) ==
    Cardinality({f \in {"published", "updated", "dc_date",
                        "prism_publicationdate", "pubDate"} :
                    f \in DOMAIN e /\ e[f] # ""})

\* C13: the date of an entry is the first non-empty field in the order
\* published, updated, dc_date, prism_publicationdate, pubDate: that field is
\* the display string and the parsed date of the record, and it decides against
\* the cutoff; with several date fields that disagree the later ones are not
\* consulted, not even when the first one cannot be parsed.
C13_FirstDateFieldDecides ==
    /\ \A k \in DOMAIN papers : \A i \in DOMAIN feed :
           papers[k].title = TitleOf(feed[i]) =>
               /\ papers[k].published =
                      IF DateText(feed[i]) = "" THEN "Unknown date"
                      ELSE DateText(feed[i])
               /\ papers[k].parsed_date =
                      IF Parsable(feed[i]) THEN DateReading[DateText(feed[i])].wall
                      ELSE NoneDate
    /\ pc = "limit" =>
           \A i \in DOMAIN feed :
               DateFields(feed[i]) >= 2 /\ HasTitle(feed[i]) /\ HasLink(feed[i]) =>
                   (Occurs(papers, feed[i]) = 1) =
                       ~(Parsable(feed[i]) /\ EntryDate(feed[i]) < Cutoff)

C13_Witness ==
    /\ Returned
    /\ \E i, j \in DOMAIN feed : \E k, l \in DOMAIN result :
           /\ GetDate(feed[i], "published") = "60 days ago"
           /\ GetDate(feed[i], "updated") = "today"
           /\ result[k].title = TitleOf(feed[i])
           /\ result[k].published = "60 days ago"
           /\ GetDate(feed[j], "prism_publicationdate") = "n/a"
           /\ GetDate(feed[j], "pubDate") = "60 days ago"
           /\ result[l].title = TitleOf(feed[j])
           /\ result[l].published = "n/a"
           /\ result[l].parsed_date = NoneDate

\* the requests of the call so far that went to d
RequestsTo(d) == {k \in DOMAIN requests : requests[k].to = d}

\* C14: for a URL that contains jamanetwork.com exactly one warm-up request
\* goes to the landing page, before the feed request, and none for another
\* URL; exactly one feed request follows and it is never repeated; a failed
\* warm-up is swallowed: the feed request is still issued, and the call
\* returns what the feed, the arguments and the outcome of the feed request
\* determine, whatever the outcome of the warm-up.
C14_WarmUpThenOneFeedRequest ==
    /\ Cardinality(RequestsTo("landing")) <= 1
    /\ Cardinality(RequestsTo("feed")) <= 1
    /\ RequestsTo("landing") # {} => Contains(url, JamaFragment)
    /\ \A k \in RequestsTo("feed") : k = Len(requests)
    /\ pc \in {"loop", "limit", "done"} =>
           /\ Cardinality(RequestsTo("feed")) = 1
           /\ Cardinality(RequestsTo("landing")) =
                  IF Contains(url, JamaFragment) THEN 1 ELSE 0
           /\ requests[Len(requests)].ok = (status = "ok")
    /\ pc = "done" =>
           result = IF status = "ok"
                    THEN Fetched(feed, url, months_back, max_papers, now)
                    ELSE <<>>

C14_Witness ==
    /\ pc = "done"
    /\ requests = <<[to |-> "landing", ok |-> FALSE], [to |-> "feed", ok |-> TRUE]>>
    /\ result # <<>>

\* the abstract field of entry e that is selected: the first that is not empty
\* among dc_description, description, summary for a Wiley feed, and among
\* description, summary for any other feed; empty when there is none
SelectedAbstract(e, wiley) ==
    LET F == IF wiley THEN <<"dc_description", "description", "summary">>
             ELSE <<"description", "summary">>
        K == {k \in DOMAIN F : F[k] \in DOMAIN e /\ e[F[k]] # <<>>}
    IN  IF K = {} THEN <<>> ELSE e[F[Least(K)]]

\* the cleaned selected field of each entry
EntryAbstract ==
    [e \in FeedEntries, wiley \in BOOLEAN |->
        _clean_abstract(SelectedAbstract(e, wiley))]

\* C15: every record has a non-empty abstract: the cleaned selected field
\* when that is not empty, and exactly "No abstract available" when the
\* selected field is missing or cleans to the empty text.
C15_AbstractPopulated ==
    \A k \in DOMAIN papers :
        /\ papers[k].abstract # <<>>
        /\ \A i \in DOMAIN feed :
               papers[k].title = TitleOf(feed[i]) =>
                   LET a == EntryAbstract[feed[i], Contains(Lower(url), WileyFragment)]
                   IN  papers[k].abstract = IF a # <<>> THEN a ELSE NoAbstract

C15_Witness ==
    /\ Returned
    /\ result = papers
    /\ \E k, m \in DOMAIN result : \E i \in DOMAIN feed :
           /\ result[k].title = TitleOf(feed[i])
           /\ GetText(feed[i], "description") = <<"<", "p", ">">>
           /\ GetText(feed[i], "summary") # <<>>
           /\ result[k].abstract = NoAbstract
           /\ result[m].abstract = <<"d">>

\* the instant a date text denotes, in hours of UTC
Instant(t) == DateReading[t].wall - DateReading[t].utcoff

\* the records of list s whose title is that of entry e
RecordsOf(s, e) == {k \in DOMAIN s : s[k].title = e.title}

\* C17: a parsed date is normalized to UTC: two entries whose date strings
\* denote the same instant with different UTC offsets get the same
\* parsed_date and the same decision against the cutoff.
C17_SameInstantSameDate ==
    pc = "limit" =>
        \A i, j \in DOMAIN feed :
            Instant(feed[i].published) = Instant(feed[j].published) =>
                /\ (RecordsOf(papers, feed[i]) = {}) = (RecordsOf(papers, feed[j]) = {})
                /\ \A k \in RecordsOf(papers, feed[i]) :
                   \A l \in RecordsOf(papers, feed[j]) :
                       papers[k].parsed_date = papers[l].parsed_date

(***************************************************************************)
(* Properties of the cleaning functions                                    *)
(***************************************************************************)
DrugXReducesRisk ==
    <<"D", "r", "u", "g", " ", "X", " ", "r", "e", "d", "u", "c", "e", "s", " ",
      "r", "i", "s", "k", ".">>

\* C9: clean_abstract is idempotent: cleaning the result of a cleaning again
\* leaves it unchanged.
C9_CleanAbstractIdempotent ==
    cleaner = "abstract" /\ Len(cleaned) >= 2 => cleaned[2] = cleaned[1]

\* C10: the abstract "<p>ABSTRACT Background: Drug X reduces risk.</p>" is
\* cleaned to "Drug X reduces risk.": the ABSTRACT label and the section
\* label are stripped although the text is wrapped in markup.
C10_ScenarioAbstract ==
    cleaner = "abstract" /\ text = ScenarioAbstract /\ Len(cleaned) >= 1
        => cleaned[1] = DrugXReducesRisk

\* C11: clean_title and clean_abstract both replace every markup tag by a
\* single space, so that the text on the two sides of a tag stays separated:
\* "a<b>c" is cleaned to "a c" by both, and a cleaned title is the decoded
\* text with every tag replaced by a space, whitespace collapsed and trimmed.
C11_TagsBecomeSpaces ==
    Len(cleaned) >= 1 =>
        /\ text = TagBetweenLetters => cleaned[1] = <<"a", " ", "c">>
        /\ cleaner = "title" /\ text # <<>> =>
               cleaned[1] = Strip(SubSpaces(SubTags(HtmlUnescape(text), <<" ">>)))

(***************************************************************************)
(* Properties of the feed-profile classifier                               *)
(***************************************************************************)
\* the publisher fragments in the order of the claim, with their profiles
ProfileOrder ==
    << [fragment |-> WileyFragment,    profile |-> "wiley"],
       [fragment |-> SpringerFragment, profile |-> "springer"],
       [fragment |-> NejmFragment,     profile |-> "nejm"],
       [fragment |-> LancetFragment,   profile |-> "lancet"],
       [fragment |-> JamaFragment,     profile |-> "jama"],
       [fragment |-> BmjFragment,      profile |-> "bmj"] >>

\* fragment f occurs in u when the case of the letters of u is ignored
OccursIn(f, u) ==
    \E a \in 0..(Len(u) - Len(f)) :
        \A j \in DOMAIN f : LowerChar(u[a + j]) = f[j]

\* the places in ProfileOrder of the fragments that occur in u
Matching(u) == {k \in DOMAIN ProfileOrder : OccursIn(ProfileOrder[k].fragment, u)}

\* C12: the classifier returns the profile of the first fragment, in the
\* order wiley, springer, nejm, lancet, jama, bmj, that occurs in the URL
\* whatever the case of its letters, also when several fragments occur, and
\* generic when none occurs.
C12_FirstMatchWins ==
    pc = "classified" =>
        journal_type = IF Matching(url) = {} THEN "generic"
                       ELSE ProfileOrder[Least(Matching(url))].profile

C12_Witness ==
    /\ pc = "classified"
    /\ Cardinality(Matching(url)) = 2
    /\ url # Lower(url)
    /\ OccursIn(ProfileOrder[Least(Matching(url))].fragment,
                SubSeq(url, 2, Len(url)))
    /\ journal_type = "springer"

(***************************************************************************)
(* Properties of concurrent calls on one collector                         *)
(***************************************************************************)
\* what call c returns when it runs alone against the same feed response
Alone(c) ==
    IF calls[c].status = "ok"
    THEN Fetched(calls[c].feed, calls[c].url, calls[c].months_back,
                 calls[c].max_papers, now)
    ELSE <<>>

\* C16, as stated: concurrent calls on one collector for different URLs are
\* self-contained: no call reads state that another call wrote, and each call
\* returns the list it would return alone against the same feed response.
C16_NoSharedState ==
    \A c \in DOMAIN calls :
        /\ calls[c].cookies \subseteq {c}
        /\ calls[c].pc = "done" => calls[c].result = Alone(c)

\* C16, amended: the calls share the session of the collector and nothing
\* else: a request of a call may carry the cookie that the warm-up of
\* another call stored, a call that makes no request to that site reads
\* none, and each call returns the list it would return alone against the
\* same feed response.
C16_SharedSessionOnly ==
    \A c \in DOMAIN calls :
        /\ calls[c].cookies \subseteq
               {d \in DOMAIN calls : Contains(calls[d].url, JamaFragment)
                                      /\ calls[d].pc # "start"}
        /\ ~Contains(calls[c].url, JamaFragment) => calls[c].cookies = {}
        /\ calls[c].pc = "done" => calls[c].result = Alone(c)

C16_Witness ==
    \E c, d \in DOMAIN calls :
        /\ c # d
        /\ d \in calls[c].cookies
        /\ calls[c].pc = "done" /\ calls[d].pc = "done"
        /\ calls[c].result # <<>> /\ calls[d].result # <<>>
        /\ calls[c].result # calls[d].result

(***************************************************************************)
(* Properties of the session state of the application                      *)
(***************************************************************************)
\* the keys of the analysis cache
CacheKeys == {k \in DOMAIN session : \E c \in DOMAIN Categories :
                 k \in {ResultKey(Categories[c].name), PapersKey(Categories[c].name)}}

\* C18: whenever the result of a category is stored, the stored papers of
\* the category are the papers that result was computed from, after any
\* sequence of clicks on Analyze, also clicks that find no papers or whose
\* analysis fails.
C18_ResultBelongsToPapers ==
    \A c \in DOMAIN Categories :
        ResultKey(Categories[c].name) \in DOMAIN session =>
            /\ PapersKey(Categories[c].name) \in DOMAIN session
            /\ session[ResultKey(Categories[c].name)].papers =
                   session[PapersKey(Categories[c].name)]

\* the paper lists an analysis of category c can fetch with time period m
Fetchable(c, m) ==
    {Concat([j \in DOMAIN Categories[c].journals |->
                IF j \in got THEN Window(Categories[c].journals[j], m) ELSE <<>>]) :
        got \in SUBSET DOMAIN Categories[c].journals} \ {<<>>}

\* every stored list of papers and every stored result comes from a fetch
\* with the selected time period
CacheIsOfPeriod ==
    /\ LastMonthsBack \in DOMAIN session => session[LastMonthsBack] = period
    /\ \A c \in DOMAIN Categories :
           /\ PapersKey(Categories[c].name) \in DOMAIN session =>
                  session[PapersKey(Categories[c].name)] \in Fetchable(c, period)
           /\ ResultKey(Categories[c].name) \in DOMAIN session =>
                  session[ResultKey(Categories[c].name)].papers \in Fetchable(c, period)

\* a change of the time period empties the analysis cache and leaves the
\* other keys as they are, last_months_back aside
PeriodChangeClearsCache ==
    period' # period =>
        /\ \A k \in DOMAIN session' :
               ~StartsWith(k, ResultPrefix) /\ ~StartsWith(k, PapersPrefix)
        /\ DOMAIN session' = DOMAIN session \ CacheKeys
        /\ \A k \in DOMAIN session' \ {LastMonthsBack} : session'[k] = session[k]
        /\ session'[LastMonthsBack] = period'

\* C19: every stored result and every stored list of papers was produced
\* with the selected time period: a change of the time period removes the
\* result_ and papers_ keys of every category in the same run, and leaves
\* all other keys of the session state untouched.
C19_CacheOfSelectedPeriod ==
    []CacheIsOfPeriod /\ [][PeriodChangeClearsCache]_vars

C19_Witness ==
    /\ period = 6
    /\ \E k \in ChkKeys : ~session[k]
    /\ ResultKey(Categories[1].name) \in DOMAIN session
    /\ PapersKey(Categories[2].name) \in DOMAIN session
    /\ \E k \in DOMAIN session[PapersKey(Categories[2].name)] :
           session[PapersKey(Categories[2].name)][k].age = 4

=============================================================================
